---- MODULE Spec2Model ----
(***************************************************************************)
(* Model of library_manager.py: the command runner (run_pip_command), the  *)
(* package verbs of PackageManager, and the console buffer                 *)
(* (console_queue, current_console, update_console, clear_console).        *)
(*                                                                         *)
(* Text is a sequence of characters.  Every character carries the chunk it *)
(* came from ([src, n, kind, arg, i]) so that order, loss and duplication  *)
(* of chunks can be observed in the console text.  A Python str is a tuple *)
(* of one-character strings.                                               *)
(*                                                                         *)
(* The verbs modelled are the ones that take a package name, the ones that *)
(* start a command without one, bulk upgrade, and the two console verbs.   *)
(* get_storage_info and detect_usb_drive are modelled beside them: they    *)
(* share no state with the package manager.                                *)
(*                                                                         *)
(* Lengths are scaled down: the maximum of 100000 characters is 6, the     *)
(* retained 80000 characters are 4, and the 36-character truncation marker *)
(* is one character (marker + retained < maximum, as in the code).         *)
(***************************************************************************)
EXTENDS Integers, Sequences, FiniteSets, TLC

\* ------------------------------------------------------------------ bounds
NHandlers == 2      \* request-handler threads that may run at once
MaxCalls == 3       \* handler calls in one behaviour
VerbCalls == 2      \* handler calls in one behaviour of Spec
ConsoleCalls == 2   \* handler calls in one behaviour of SpecConsole
MaxRuns == 2        \* run_pip_command invocations in one behaviour
MaxLines == 1       \* output lines one process writes
MaxOutdated == 1    \* entries "pip list --outdated" reports
MaxPartitions == 2  \* partitions psutil.disk_partitions() reports
BulkOutdated == 2   \* entries "pip list --outdated" reports in SpecBulk

\* ------------------------------------------------- program constants (scaled)
MAX_CONSOLE == 6    \* 100000, update_console
KEEP_CONSOLE == 4   \* 80000, update_console

Handlers == 1..NHandlers
Calls == 1..MaxCalls
Runs == 1..MaxRuns
ExitCodes == {0, 1, 2}
LineLens == {1, 2}  \* an output line is short or long

\* ------------------------------------------------------------------ strings
Whitespace == {" ", "\t"}

RECURSIVE LStrip(_)
LStrip(s) == IF s # <<>> /\ Head(s) \in Whitespace THEN LStrip(Tail(s)) ELSE s

RECURSIVE RStrip(_)
RStrip(s) ==
    IF s # <<>> /\ s[Len(s)] \in Whitespace THEN RStrip(SubSeq(s, 1, Len(s) - 1)) ELSE s

\* str.strip()
Strip(s) == RStrip(LStrip(s))

LowerChar(c) ==
    CASE c = "P" -> "p"
      [] c = "I" -> "i"
      [] c = "N" -> "n"
      [] c = "U" -> "u"
      [] c = "S" -> "s"
      [] c = "B" -> "b"
      [] OTHER -> c

\* str.lower()
Lower(s) == [k \in 1..Len(s) |-> LowerChar(s[k])]

\* `not package_name or not package_name.strip()`
IsBlankMut(name) == name = <<>>

IsBlank(name) == name = <<>> \/ Strip(name) = <<>>

critical_packages ==
    { <<"p","i","p">>,
      <<"s","e","t","u","p","t","o","o","l","s">>,
      <<"w","h","e","e","l">>,
      <<"p","y","t","h","o","n">>,
      <<"g","r","a","d","i","o">> }

\* `package_name.lower() in critical_packages`, on the stripped name
IsCriticalMut(name) == name \in critical_packages

IsCritical(name) == Lower(name) \in critical_packages

\* `op in version`
Contains(s, op) ==
    \E k \in 1..(Len(s) - Len(op) + 1) : SubSeq(s, k, k + Len(op) - 1) = op

version_operators ==
    { <<"=","=">>, <<">","=">>, <<"<","=">>, <<">">>, <<"<">>, <<"~","=">>, <<"!","=">> }

\* package_spec of install_package, from the stripped name and the version box
PackageSpecMut(name, version) ==
    IF version # <<>> /\ Strip(version) # <<>>
    THEN name \o <<"=","=">> \o Strip(version)
    ELSE name

PackageSpec(name, version) ==
    IF version # <<>> /\ Strip(version) # <<>>
    THEN IF ~(\E op \in version_operators : Contains(Strip(version), op))
         THEN name \o <<"=","=">> \o Strip(version)
         ELSE name \o Strip(version)
    ELSE name

\* the names a user may type into the package box
PackageNames ==
    { <<>>, <<"\t"," ">>, <<"p","i","p">>, <<" ","P","i","P","\t">>, <<"n","p">> }

\* the constraints a user may type into the version box
Versions ==
    { <<>>, <<" ","\t">>, <<"1">>, <<" ","1"," ">>, <<"=","1">>, <<"=","=","1">>,
      <<">","=","1">>, <<"<","=","1">>, <<">","1">>, <<"<","1">>, <<"~","=","1">>,
      <<"!","=","1">>, <<" ","~","=","1">>, <<"1","!">> }

\* ------------------------------------------------------------------- chunks
\* A chunk of len characters put by src as its n-th chunk.
Chunk(src, n, kind, arg, len) ==
    [k \in 1..len |-> [src |-> src, n |-> n, kind |-> kind, arg |-> arg, i |-> k]]

RunSrc(r) == <<"run", r>>
CallSrc(c) == <<"call", c>>

\* _get_welcome_message()
WelcomeMessage == Chunk(<<"banner", 0>>, 0, "banner", 0, 1)

\* "... (earlier output truncated) ...\n\n"
TruncMarker == Chunk(<<"marker", 0>>, 0, "marker", 0, 1)

\* s[-n:]
LastN(s, n) == IF Len(s) <= n THEN s ELSE SubSeq(s, Len(s) - n + 1, Len(s))

\* the branch of update_console that limits the console length
TruncateMut(text) ==
    IF Len(text) >= MAX_CONSOLE THEN TruncMarker \o LastN(text, KEEP_CONSOLE) ELSE text

TruncateNoMarker(text) ==
    IF Len(text) > MAX_CONSOLE THEN LastN(text, KEEP_CONSOLE) ELSE text

Truncate(text) ==
    IF Len(text) > MAX_CONSOLE THEN TruncMarker \o LastN(text, KEEP_CONSOLE) ELSE text

\* the chunk run_pip_command puts after process.wait(), by return code
ResultKindMut(returncode) == "ok"

ResultKind(returncode) == IF returncode = 0 THEN "ok" ELSE "fail"


\* what the `except Exception` clause of run_pip_command does with the run
ExceptionOutcomeTwice(r, n) ==
    [pc |-> "done",
     chunks |-> <<Chunk(RunSrc(r), n, "error", 0, 1), Chunk(RunSrc(r), n + 1, "error", 0, 1)>>]

ExceptionOutcomeMut(r, n) == [pc |-> "raised", chunks |-> <<>>]

ExceptionOutcome(r, n) ==
    [pc |-> "done", chunks |-> <<Chunk(RunSrc(r), n, "error", 0, 1)>>]

\* -------------------------------------------------------------------- state
VARIABLES
    console_queue,    \* PackageManager.console_queue: the chunks put and not yet got
    current_console,  \* PackageManager.current_console
    rpc,              \* run -> position in run_pip_command
    rcmd,             \* run -> the command it was given
    rowner,           \* run -> 0 for a worker thread, h when handler h runs it inline
    rcall,            \* run -> the call that started it
    proc,             \* run -> "none" | "running" | "exited": its process
    returncode,       \* run -> process.returncode once exited
    rlines,           \* run -> output lines read so far
    rexc,             \* run -> an exception was raised inside the try block
    overdue,          \* run -> its process was still running when the timeout duration elapsed
    rlog,             \* run -> the chunks the run has put, in order (kind and arg)
    nruns,            \* run_pip_command invocations so far
    ncalls,           \* handler calls so far
    hpc,              \* handler -> position in the verb it is executing
    hcur,             \* handler -> the call it is executing (0: none)
    todo,             \* handler -> chunks the verb puts before its next step
    after,            \* handler -> the step that follows those puts
    message,          \* handler -> local `message` of update_console
    loaded,           \* handler -> current_console as read by `+=`
    owed,             \* handler -> chunks put before its update_console began
    condemned,        \* handler -> chunks on the queue when its clear_console began
    hbulk,            \* handler -> [total, done] of the bulk-upgrade loop
    cverb,            \* call -> verb
    cname,            \* call -> the package name as typed
    cversion,         \* call -> the version constraint as typed
    clog,             \* call -> the chunks the verb itself has put (kind)
    cthread,          \* call -> worker threads started
    cprocs,           \* call -> processes the handler itself spawned and waited for
    cinline,          \* call -> process exits the handler waited for inside run_pip_command
    cret,             \* call -> "none" | "pending" | "returned"
    hret,             \* handler -> the console text it is returning
    truncated,        \* update_console has truncated the console
    cleared,          \* clear_console has run
    usb_call,         \* a call of detect_usb_drive: its arguments, the platform and
                      \* sysfs it runs on, and its result
    storage_call      \* a call of get_storage_info: the partitions it walks, its
                      \* position, storage_data and how it ended

vars == << console_queue, current_console, rpc, rcmd, rowner, rcall, proc, returncode,
           rlines, rexc, overdue, rlog, nruns, ncalls, hpc, hcur, todo, after, message,
           loaded, owed, condemned, hbulk, hret, cverb, cname, cversion, clog, cthread,
           cprocs, cinline, cret, truncated, cleared, usb_call, storage_call >>

runVars == << rpc, rcmd, rowner, rcall, proc, returncode, rlines, rexc, overdue, rlog, nruns >>
callVars == << cverb, cname, cversion, clog, cthread, cprocs, cinline, cret, ncalls >>
handlerVars == << hpc, hcur, todo, after, message, loaded, owed, condemned, hbulk, hret >>
consoleVars == << console_queue, current_console, truncated, cleared >>
inspectorVars == << usb_call, storage_call >>

NoCmd == [verb |-> "none", arg |-> <<>>]

\* PackageManager.__init__ and the module-level `pm = PackageManager()`
PMInit ==
    /\ console_queue = <<>>
    /\ current_console = WelcomeMessage
    /\ rpc = [r \in Runs |-> "unborn"]
    /\ rcmd = [r \in Runs |-> NoCmd]
    /\ rowner = [r \in Runs |-> 0]
    /\ rcall = [r \in Runs |-> 0]
    /\ proc = [r \in Runs |-> "none"]
    /\ returncode = [r \in Runs |-> 0]
    /\ rlines = [r \in Runs |-> 0]
    /\ rexc = [r \in Runs |-> FALSE]
    /\ overdue = [r \in Runs |-> FALSE]
    /\ rlog = [r \in Runs |-> <<>>]
    /\ nruns = 0
    /\ ncalls = 0
    /\ hpc = [h \in Handlers |-> "idle"]
    /\ hcur = [h \in Handlers |-> 0]
    /\ todo = [h \in Handlers |-> <<>>]
    /\ after = [h \in Handlers |-> "idle"]
    /\ message = [h \in Handlers |-> <<>>]
    /\ loaded = [h \in Handlers |-> <<>>]
    /\ owed = [h \in Handlers |-> {}]
    /\ condemned = [h \in Handlers |-> {}]
    /\ hbulk = [h \in Handlers |-> [total |-> 0, done |-> 0]]
    /\ hret = [h \in Handlers |-> <<>>]
    /\ cverb = [c \in Calls |-> "none"]
    /\ cname = [c \in Calls |-> <<>>]
    /\ cversion = [c \in Calls |-> <<>>]
    /\ clog = [c \in Calls |-> <<>>]
    /\ cthread = [c \in Calls |-> 0]
    /\ cprocs = [c \in Calls |-> 0]
    /\ cinline = [c \in Calls |-> 0]
    /\ cret = [c \in Calls |-> "none"]
    /\ truncated = FALSE
    /\ cleared = FALSE

NoUsbCall ==
    [mountpoint |-> <<>>, device |-> <<>>, system |-> "none", sysfs |-> {},
     done |-> FALSE, result |-> FALSE]

NoStorageCall ==
    [parts |-> <<>>, system |-> "none", sysfs |-> {}, i |-> 0, data |-> <<>>,
     status |-> "none"]

\* the package manager with no storage panel call under way
Init == PMInit /\ usb_call = NoUsbCall /\ storage_call = NoStorageCall

\* every chunk put so far, by run or by verb
PutSoFar ==
    UNION { { [src |-> RunSrc(r), n |-> k] : k \in 1..Len(rlog[r]) } : r \in Runs }
    \cup UNION { { [src |-> CallSrc(c), n |-> k] : k \in 1..Len(clog[c]) } : c \in Calls }

\* the chunks now on the queue
QueuedIds ==
    { [src |-> console_queue[k][1].src, n |-> console_queue[k][1].n] :
          k \in 1..Len(console_queue) }

\* ------------------------------------------------------- run_pip_command
\* console_output.put(chunk) by run r
RunPut(r, kind, arg, len) ==
    /\ console_queue' = Append(console_queue, Chunk(RunSrc(r), Len(rlog[r]) + 1, kind, arg, len))
    /\ rlog' = [rlog EXCEPT ![r] = Append(@, [kind |-> kind, arg |-> arg])]

\* `for i, package in enumerate(outdated_packages, 1)`: the entries done once
\* run_pip_command has returned for one entry; ok says whether that run
\* reported success
AfterEntryMut(done, total, ok) == IF ok THEN done + 1 ELSE total

AfterEntry(done, total, ok) == done + 1

\* run r returns to its caller: a worker thread ends, an inline caller goes on
RunReturns(r, pc) ==
    IF rowner[r] # 0 /\ pc = "done"
    THEN /\ hpc' = [hpc EXCEPT ![rowner[r]] = "bulkloop"]
         /\ hbulk' = [hbulk EXCEPT ![rowner[r]].done =
                         AfterEntry(@, hbulk[rowner[r]].total,
                                    rpc[r] = "result" /\ returncode[r] = 0)]
         /\ UNCHANGED << hcur, todo, after, message, loaded, condemned, owed, hret >>
    ELSE UNCHANGED handlerVars

\* an exception inside the try block: the except clause runs
RunExcept(r) ==
    LET out == ExceptionOutcome(r, Len(rlog[r]) + 1) IN
    /\ rpc' = [rpc EXCEPT ![r] = out.pc]
    /\ rexc' = [rexc EXCEPT ![r] = TRUE]
    /\ console_queue' = console_queue \o out.chunks
    /\ rlog' = [rlog EXCEPT ![r] =
                   @ \o [k \in 1..Len(out.chunks) |->
                            [kind |-> out.chunks[k][1].kind, arg |-> out.chunks[k][1].arg]]]
    /\ RunReturns(r, out.pc)

\* console_output.put("Executing: ...")
RunExec(r) ==
    /\ rpc[r] = "exec"
    /\ RunPut(r, "exec", 0, 1)
    /\ rpc' = [rpc EXCEPT ![r] = "sep1"]
    /\ UNCHANGED << rcmd, rowner, rcall, proc, returncode, rlines, rexc, overdue, nruns,
                    current_console, truncated, cleared >>
    /\ UNCHANGED << handlerVars, callVars >>
    /\ UNCHANGED inspectorVars

\* console_output.put("=" * 60)
RunSep1(r) ==
    /\ rpc[r] = "sep1"
    /\ RunPut(r, "sep", 0, 1)
    /\ rpc' = [rpc EXCEPT ![r] = "spawn"]
    /\ UNCHANGED << rcmd, rowner, rcall, proc, returncode, rlines, rexc, overdue, nruns,
                    current_console, truncated, cleared >>
    /\ UNCHANGED << handlerVars, callVars >>
    /\ UNCHANGED inspectorVars

\* subprocess.Popen(...) succeeds
RunSpawn(r) ==
    /\ rpc[r] = "spawn"
    /\ proc' = [proc EXCEPT ![r] = "running"]
    /\ rpc' = [rpc EXCEPT ![r] = "read"]
    /\ UNCHANGED << rcmd, rowner, rcall, returncode, rlines, rexc, overdue, rlog, nruns >>
    /\ UNCHANGED << consoleVars, handlerVars, callVars >>
    /\ UNCHANGED inspectorVars

\* subprocess.Popen(...) raises (executable not found, ...)
RunSpawnFails(r) ==
    /\ rpc[r] = "spawn"
    /\ RunExcept(r)
    /\ UNCHANGED << rcmd, rowner, rcall, proc, returncode, rlines, overdue, nruns,
                    current_console, truncated, cleared >>
    /\ UNCHANGED callVars
    /\ UNCHANGED inspectorVars

\* `for line in process.stdout: console_output.put(line)`, one line
RunLine(r, len) ==
    /\ rpc[r] = "read"
    /\ rlines[r] < MaxLines
    /\ RunPut(r, "line", 0, len)
    /\ rlines' = [rlines EXCEPT ![r] = @ + 1]
    /\ UNCHANGED << rpc, rcmd, rowner, rcall, proc, returncode, rexc, overdue, nruns,
                    current_console, truncated, cleared >>
    /\ UNCHANGED << handlerVars, callVars >>
    /\ UNCHANGED inspectorVars

\* reading process.stdout raises (a decoding error, ...)
RunReadFails(r) ==
    /\ rpc[r] = "read"
    /\ RunExcept(r)
    /\ UNCHANGED << rcmd, rowner, rcall, proc, returncode, rlines, overdue, nruns,
                    current_console, truncated, cleared >>
    /\ UNCHANGED callVars
    /\ UNCHANGED inspectorVars

\* process.stdout reaches end of file
RunEOF(r) ==
    /\ rpc[r] = "read"
    /\ rpc' = [rpc EXCEPT ![r] = "wait"]
    /\ UNCHANGED << rcmd, rowner, rcall, proc, returncode, rlines, rexc, overdue, rlog, nruns >>
    /\ UNCHANGED << consoleVars, handlerVars, callVars >>
    /\ UNCHANGED inspectorVars

\* process.wait() returns: the process has exited with `code`
RunWait(r, code) ==
    /\ rpc[r] = "wait"
    /\ proc' = [proc EXCEPT ![r] = "exited"]
    /\ returncode' = [returncode EXCEPT ![r] = code]
    /\ rpc' = [rpc EXCEPT ![r] = "sep2"]
    /\ cinline' = IF rowner[r] # 0 THEN [cinline EXCEPT ![rcall[r]] = @ + 1] ELSE cinline
    /\ UNCHANGED << rcmd, rowner, rcall, rlines, rexc, overdue, rlog, nruns >>
    /\ UNCHANGED << consoleVars, handlerVars >>
    /\ UNCHANGED << cverb, cname, cversion, clog, cthread, cprocs, cret, ncalls >>
    /\ UNCHANGED inspectorVars

\* console_output.put("=" * 60) after the wait
RunSep2(r) ==
    /\ rpc[r] = "sep2"
    /\ RunPut(r, "sep", 0, 1)
    /\ rpc' = [rpc EXCEPT ![r] = "result"]
    /\ UNCHANGED << rcmd, rowner, rcall, proc, returncode, rlines, rexc, overdue, nruns,
                    current_console, truncated, cleared >>
    /\ UNCHANGED << handlerVars, callVars >>
    /\ UNCHANGED inspectorVars

\* `if process.returncode == 0: put(success) else: put(failed with return code)`
RunResult(r) ==
    LET kind == ResultKind(returncode[r]) IN
    /\ rpc[r] = "result"
    /\ RunPut(r, kind, IF kind = "fail" THEN returncode[r] ELSE 0, 1)
    /\ rpc' = [rpc EXCEPT ![r] = "done"]
    /\ RunReturns(r, "done")
    /\ UNCHANGED << rcmd, rowner, rcall, proc, returncode, rlines, rexc, overdue, nruns,
                    current_console, truncated, cleared >>
    /\ UNCHANGED callVars
    /\ UNCHANGED inspectorVars

\* the timeout duration elapses while run r is reading from or waiting for its
\* process; run_pip_command sets no timer, so nothing in the run reacts to it
DeadlinePasses(r) ==
    /\ rpc[r] \in {"read", "wait"}
    /\ proc[r] = "running"
    /\ ~overdue[r]
    /\ overdue' = [overdue EXCEPT ![r] = TRUE]
    /\ UNCHANGED << rpc, rcmd, rowner, rcall, proc, returncode, rlines, rexc, rlog, nruns >>
    /\ UNCHANGED << consoleVars, handlerVars, callVars >>
    /\ UNCHANGED inspectorVars


\* ------------------------------------------------------ PackageManager verbs
NameVerbs == {"install", "uninstall", "update", "reinstall", "info"}
Verbs == NameVerbs \cup {"list_outdated", "freeze", "install_req", "upgrade_all",
                         "update_console", "clear_console"}

\* What a verb does before it hands over to the command runner: the chunks it
\* puts, and its next step.  `text` is the package name (the requirements text
\* for install_req); tmpok says whether the temporary file could be written.
VerbPlan(verb, text, tmpok) ==
    CASE verb \in NameVerbs /\ IsBlank(text) -> [chunks |-> <<"reject">>, next |-> "listing"]
      [] verb = "install" /\ ~IsBlank(text) -> [chunks |-> <<"announce">>, next |-> "start"]
      [] verb = "uninstall" /\ ~IsBlank(text) ->
            [chunks |-> IF IsCritical(Strip(text)) THEN <<"warn", "warn", "warn">> ELSE <<>>,
             next |-> "start"]
      [] verb = "update" /\ ~IsBlank(text) -> [chunks |-> <<"announce">>, next |-> "start"]
      [] verb = "reinstall" /\ ~IsBlank(text) -> [chunks |-> <<"announce">>, next |-> "start"]
      [] verb = "info" /\ ~IsBlank(text) -> [chunks |-> <<>>, next |-> "start"]
      [] verb = "list_outdated" -> [chunks |-> <<"announce", "announce">>, next |-> "start"]
      [] verb = "freeze" -> [chunks |-> <<"announce">>, next |-> "start"]
      [] verb = "install_req" ->
            IF IsBlank(text) THEN [chunks |-> <<"reject">>, next |-> "listing"]
            ELSE IF tmpok THEN [chunks |-> <<"announce">>, next |-> "start"]
            ELSE [chunks |-> <<"error">>, next |-> "listing"]
      [] verb = "upgrade_all" ->
            [chunks |-> <<"bulk", "bulk", "bulk", "bulk", "bulk", "bulk">>, next |-> "query"]
      [] verb = "update_console" -> [chunks |-> <<>>, next |-> "get"]
      [] verb = "clear_console" -> [chunks |-> <<>>, next |-> "clear"]

\* the handler goes to `next` after its puts; update_console begins at "get"
Goto(h, chunks, next) ==
    /\ todo' = [todo EXCEPT ![h] = chunks]
    /\ after' = [after EXCEPT ![h] = next]
    /\ hpc' = [hpc EXCEPT ![h] = IF chunks # <<>> THEN "puts" ELSE next]
    /\ owed' = [owed EXCEPT ![h] = IF chunks = <<>> /\ next = "get" THEN PutSoFar ELSE @]

\* a request handler enters a verb of PackageManager; `version` is the version
\* box of install_package
Call(h, verb, text, version, tmpok) ==
    LET c == ncalls + 1
        plan == VerbPlan(verb, text, tmpok) IN
    /\ hpc[h] = "idle"
    /\ ncalls < MaxCalls
    /\ ncalls' = c
    /\ hcur' = [hcur EXCEPT ![h] = c]
    /\ cverb' = [cverb EXCEPT ![c] = verb]
    /\ cname' = [cname EXCEPT ![c] = text]
    /\ cversion' = [cversion EXCEPT ![c] = version]
    /\ cret' = [cret EXCEPT ![c] = "pending"]
    /\ Goto(h, plan.chunks, plan.next)
    /\ UNCHANGED << message, loaded, condemned, hbulk, hret, clog, cthread, cprocs, cinline >>
    /\ UNCHANGED << runVars, consoleVars >>
    /\ UNCHANGED inspectorVars

\* self.console_queue.put(...) by the verb itself
HPut(h) ==
    LET c == hcur[h]
        rest == Tail(todo[h]) IN
    /\ hpc[h] = "puts"
    /\ console_queue' = Append(console_queue, Chunk(CallSrc(c), Len(clog[c]) + 1, Head(todo[h]), 0, 1))
    /\ clog' = [clog EXCEPT ![c] = Append(@, Head(todo[h]))]
    /\ todo' = [todo EXCEPT ![h] = rest]
    /\ hpc' = [hpc EXCEPT ![h] = IF rest = <<>> THEN after[h] ELSE "puts"]
    /\ owed' = [owed EXCEPT ![h] =
                   IF rest = <<>> /\ after[h] = "get"
                   THEN PutSoFar \cup {[src |-> CallSrc(c), n |-> Len(clog[c]) + 1]} ELSE @]
    /\ UNCHANGED << hcur, after, message, loaded, condemned, hbulk, hret >>
    /\ UNCHANGED << cverb, cname, cversion, cthread, cprocs, cinline, cret, ncalls >>
    /\ UNCHANGED << runVars, current_console, truncated, cleared >>
    /\ UNCHANGED inspectorVars

\* the command a verb builds for the command runner
Command(verb, text, version) ==
    [verb |-> verb,
     arg |-> IF verb = "install" THEN PackageSpec(Strip(text), version) ELSE Strip(text)]

\* run_pip_command is entered for call c, by a worker thread (owner 0) or inline
NewRun(r, c, owner, cmd) ==
    /\ nruns' = r
    /\ rpc' = [rpc EXCEPT ![r] = "exec"]
    /\ rcmd' = [rcmd EXCEPT ![r] = cmd]
    /\ rowner' = [rowner EXCEPT ![r] = owner]
    /\ rcall' = [rcall EXCEPT ![r] = c]
    /\ UNCHANGED << proc, returncode, rlines, rexc, overdue, rlog >>

\* threading.Thread(target=run_pip_command, ...).start(); cthread counts the
\* threads that run a command
HStart(h) ==
    LET c == hcur[h] IN
    /\ hpc[h] = "start"
    /\ nruns < MaxRuns
    /\ NewRun(nruns + 1, c, 0, Command(cverb[c], cname[c], cversion[c]))
    /\ cthread' = [cthread EXCEPT ![c] = @ + 1]
    /\ hpc' = [hpc EXCEPT ![h] = "listing"]
    /\ UNCHANGED << hcur, todo, after, message, loaded, condemned, owed, hbulk, hret >>
    /\ UNCHANGED << cverb, cname, cversion, clog, cprocs, cinline, cret, ncalls >>
    /\ UNCHANGED consoleVars
    /\ UNCHANGED inspectorVars

\* get_installed_packages(): subprocess.run of "pip list", waited for;
\* then update_console() is entered
HListing(h) ==
    LET c == hcur[h] IN
    /\ hpc[h] = "listing"
    /\ cprocs' = [cprocs EXCEPT ![c] = @ + 1]
    /\ hpc' = [hpc EXCEPT ![h] = "get"]
    /\ owed' = [owed EXCEPT ![h] = PutSoFar]
    /\ UNCHANGED << hcur, todo, after, message, loaded, condemned, hbulk, hret >>
    /\ UNCHANGED << cverb, cname, cversion, clog, cthread, cinline, cret, ncalls >>
    /\ UNCHANGED << runVars, consoleVars >>
    /\ UNCHANGED inspectorVars

\* ------------------------------------------------------------ update_console
\* message = self.console_queue.get_nowait(); queue.Empty ends the loop and
\* the method returns self.current_console
UCGet(h) ==
    /\ hpc[h] = "get"
    /\ IF console_queue = <<>>
       THEN /\ hpc' = [hpc EXCEPT ![h] = "ret"]
            /\ hret' = [hret EXCEPT ![h] = current_console]
            /\ UNCHANGED << console_queue, message >>
       ELSE /\ message' = [message EXCEPT ![h] = Head(console_queue)]
            /\ console_queue' = Tail(console_queue)
            /\ hpc' = [hpc EXCEPT ![h] = "load"]
            /\ UNCHANGED hret
    /\ UNCHANGED << hcur, todo, after, loaded, condemned, owed, hbulk >>
    /\ UNCHANGED << runVars, callVars, current_console, truncated, cleared >>
    /\ UNCHANGED inspectorVars

\* `self.current_console += message`: the read of the attribute
UCLoad(h) ==
    /\ hpc[h] = "load"
    /\ loaded' = [loaded EXCEPT ![h] = current_console]
    /\ hpc' = [hpc EXCEPT ![h] = "store"]
    /\ UNCHANGED << hcur, todo, after, message, condemned, owed, hbulk, hret >>
    /\ UNCHANGED << runVars, callVars, consoleVars >>
    /\ UNCHANGED inspectorVars

\* `self.current_console += message`: the write of the attribute
UCStore(h) ==
    /\ hpc[h] = "store"
    /\ current_console' = loaded[h] \o message[h]
    /\ loaded' = [loaded EXCEPT ![h] = <<>>]
    /\ hpc' = [hpc EXCEPT ![h] = "trunc"]
    /\ UNCHANGED << hcur, todo, after, message, condemned, owed, hbulk, hret >>
    /\ UNCHANGED << runVars, callVars, console_queue, truncated, cleared >>
    /\ UNCHANGED inspectorVars

\* `if len(self.current_console) > 100000: self.current_console = marker + ...[-80000:]`
UCTrunc(h) ==
    /\ hpc[h] = "trunc"
    /\ current_console' = Truncate(current_console)
    /\ truncated' = (truncated \/ Len(current_console) > MAX_CONSOLE)
    /\ message' = [message EXCEPT ![h] = <<>>]
    /\ hpc' = [hpc EXCEPT ![h] = "get"]
    /\ UNCHANGED << hcur, todo, after, loaded, condemned, owed, hbulk, hret >>
    /\ UNCHANGED << runVars, callVars, console_queue, cleared >>
    /\ UNCHANGED inspectorVars

\* the verb returns (packages, console text) to the UI
HReturn(h) ==
    /\ hpc[h] = "ret"
    /\ cret' = [cret EXCEPT ![hcur[h]] = "returned"]
    /\ hpc' = [hpc EXCEPT ![h] = "idle"]
    /\ hcur' = [hcur EXCEPT ![h] = 0]
    /\ hret' = [hret EXCEPT ![h] = <<>>]
    /\ owed' = [owed EXCEPT ![h] = {}]
    /\ condemned' = [condemned EXCEPT ![h] = {}]
    /\ UNCHANGED << todo, after, message, loaded, hbulk >>
    /\ UNCHANGED << cverb, cname, cversion, clog, cthread, cprocs, cinline, ncalls >>
    /\ UNCHANGED << runVars, consoleVars >>
    /\ UNCHANGED inspectorVars

\* ------------------------------------------------------------- clear_console
\* self.current_console = self._get_welcome_message()
CCReset(h) ==
    /\ hpc[h] = "clear"
    /\ current_console' = WelcomeMessage
    /\ cleared' = TRUE
    /\ condemned' = [condemned EXCEPT ![h] = QueuedIds]
    /\ hpc' = [hpc EXCEPT ![h] = "drain"]
    /\ UNCHANGED << hcur, todo, after, message, loaded, owed, hbulk, hret >>
    /\ UNCHANGED << runVars, callVars, console_queue, truncated >>
    /\ UNCHANGED inspectorVars

\* `while not self.console_queue.empty(): self.console_queue.get_nowait()`,
\* then `return self.current_console`
CCDrain(h) ==
    /\ hpc[h] = "drain"
    /\ IF console_queue = <<>>
       THEN /\ hpc' = [hpc EXCEPT ![h] = "ret"]
            /\ hret' = [hret EXCEPT ![h] = current_console]
            /\ UNCHANGED console_queue
       ELSE /\ console_queue' = Tail(console_queue)
            /\ UNCHANGED << hpc, hret >>
    /\ UNCHANGED << hcur, todo, after, message, loaded, condemned, owed, hbulk >>
    /\ UNCHANGED << runVars, callVars, current_console, truncated, cleared >>
    /\ UNCHANGED inspectorVars

\* ------------------------------------------------------ upgrade_all_packages
\* subprocess.run("pip list --outdated --format=freeze", check=True), waited
\* for: it raises, or reports n outdated packages
HQuery(h, ok, n) ==
    LET c == hcur[h] IN
    /\ hpc[h] = "query"
    /\ cprocs' = [cprocs EXCEPT ![c] = @ + 1]
    /\ hbulk' = [hbulk EXCEPT ![h] = [total |-> IF ok THEN n ELSE 0, done |-> 0]]
    /\ IF ~ok THEN Goto(h, <<"error">>, "listing")
       ELSE IF n = 0 THEN Goto(h, <<"uptodate">>, "listing")
       ELSE Goto(h, <<"found">> \o [k \in 1..(IF n < 10 THEN n ELSE 10) |-> "preview"]
                       \o (IF n > 10 THEN <<"more">> ELSE <<>>), "bulkloop")
    /\ UNCHANGED << hcur, message, loaded, condemned, hret >>
    /\ UNCHANGED << cverb, cname, cversion, clog, cthread, cinline, cret, ncalls >>
    /\ UNCHANGED << runVars, consoleVars >>
    /\ UNCHANGED inspectorVars

\* `for i, package in enumerate(outdated_packages, 1)`: the next entry, or the
\* end of the loop
HBulkNext(h) ==
    /\ hpc[h] = "bulkloop"
    /\ IF hbulk[h].done < hbulk[h].total
       THEN Goto(h, <<"upgrading">>, "inline")
       ELSE /\ hpc' = [hpc EXCEPT ![h] = "listing"]
            /\ UNCHANGED << todo, after, owed >>
    /\ UNCHANGED << hcur, message, loaded, condemned, hbulk, hret >>
    /\ UNCHANGED << runVars, callVars, consoleVars >>
    /\ UNCHANGED inspectorVars

\* `run_pip_command(command, self.console_queue)` called by the handler itself
HInline(h) ==
    LET c == hcur[h] IN
    /\ hpc[h] = "inline"
    /\ nruns < MaxRuns
    /\ NewRun(nruns + 1, c, h, [verb |-> "update", arg |-> <<"o", hbulk[h].done + 1>>])
    /\ hpc' = [hpc EXCEPT ![h] = "inrun"]
    /\ UNCHANGED << hcur, todo, after, message, loaded, condemned, owed, hbulk, hret >>
    /\ UNCHANGED << callVars, consoleVars >>
    /\ UNCHANGED inspectorVars

\* ------------------------------------------------------- detect_usb_drive
\* str.startswith
StartsWith(s, prefix) == Len(s) >= Len(prefix) /\ SubSeq(s, 1, Len(prefix)) = prefix

usb_indicators == { <<"/","m","e","d","i","a","/">>, <<"/","m","n","t","/">>, <<"/","r","u","n","/","m","e","d","i","a","/">> }

Digits == {"0", "1", "2", "3", "4", "5", "6", "7", "8", "9"}

\* str.rstrip('0123456789')
RECURSIVE RStripDigits(_)
RStripDigits(s) ==
    IF s # <<>> /\ s[Len(s)] \in Digits THEN RStripDigits(SubSeq(s, 1, Len(s) - 1)) ELSE s

\* device.split('/')[-1]
RECURSIVE LastComponent(_)
LastComponent(s) ==
    IF s = <<>> \/ s[Len(s)] = "/" THEN <<>>
    ELSE Append(LastComponent(SubSeq(s, 1, Len(s) - 1)), s[Len(s)])

\* detect_usb_drive(mountpoint, device) on a platform whose /sys/block holds the
\* entries of sysfs: [name, real, raises], the entry's name, what
\* os.path.realpath resolves it to, and whether resolving raises
DetectUsbMut(mountpoint, device, system, sysfs) ==
    IF system = "Linux"
    THEN LET device_name == RStripDigits(LastComponent(device))
             found == { e \in sysfs : e.name = device_name } IN
         IF found # {} /\ \A e \in found : ~e.raises /\ Contains(Lower(e.real), <<"u","s","b">>)
         THEN TRUE
         ELSE \E indicator \in usb_indicators : StartsWith(mountpoint, indicator)
    ELSE FALSE

DetectUsb(mountpoint, device, system, sysfs) ==
    IF \E indicator \in usb_indicators : StartsWith(mountpoint, indicator)
    THEN TRUE
    ELSE IF system = "Linux"
    THEN LET device_name == RStripDigits(LastComponent(device))
             found == { e \in sysfs : e.name = device_name } IN
         IF found # {}
         THEN LET e == CHOOSE e \in found : TRUE IN
              IF e.raises THEN FALSE ELSE Contains(Lower(e.real), <<"u","s","b">>)
         ELSE FALSE
    ELSE FALSE

\* partition.mountpoint
Mountpoints ==
    { <<"/","m","e","d","i","a","/","u">>,
      <<"/","m","n","t","/">>,
      <<"/","r","u","n","/","m","e","d","i","a","/","u">>,
      <<"/">>,
      <<"/","m","n","t","x">>,
      <<"/","h","o","m","e","/","m","e","d","i","a","/">>,
      <<"/","r","u","n","/","u","s","b">> }

\* partition.device
Devices == { <<"/","d","e","v","/","s","d","b","1">>, <<"/","d","e","v","/","s","d","a">>, <<"s","d","b">>, <<"/","d","e","v","/","s","d","c","1">> }

\* platform.system()
Systems == {"Linux", "Windows", "Darwin"}

SysEntry(name, real, raises) == [name |-> name, real |-> real, raises |-> raises]

\* what /sys/block may hold
Sysfss ==
    { {},
      {SysEntry(<<"s","d","b">>, <<"/","u","s","b","1","/","s","d","b">>, FALSE)},
      {SysEntry(<<"s","d","b">>, <<"/","U","S","B","/","s","d","b">>, FALSE)},
      {SysEntry(<<"s","d","b">>, <<"/","a","t","a","/","s","d","b">>, FALSE)},
      {SysEntry(<<"s","d","b">>, <<"/","u","s","b","1","/","s","d","b">>, TRUE)},
      {SysEntry(<<"s","d","a">>, <<"/","a","t","a","/","s","d","a">>, FALSE), SysEntry(<<"s","d","b">>, <<"/","u","s","b","1","/","s","d","b">>, FALSE)} }

\* a call of detect_usb_drive returns
DetectUsbDrive ==
    /\ usb_call.system # "none"
    /\ ~usb_call.done
    /\ usb_call' = [usb_call EXCEPT
                       !.done = TRUE,
                       !.result = DetectUsb(usb_call.mountpoint, usb_call.device,
                                            usb_call.system, usb_call.sysfs)]
    /\ UNCHANGED << runVars, callVars, handlerVars, consoleVars, storage_call >>

\* ------------------------------------------------------- get_storage_info
\* a partition and what psutil.disk_usage does for it
StoragePartitions ==
    { [device |-> d, mountpoint |-> m, usage |-> u, total |-> t, used |-> n] :
          d \in { <<"/","d","e","v","/","s","d","a">>, <<"/","d","e","v","/","s","d","b","1">> },
          m \in { <<"/">>, <<"/","m","e","d","i","a","/","u">> },
          u \in {"ok", "PermissionError", "OSError"}, t \in {0, 2}, n \in {0, 1} }

\* the partitions psutil can report: a failed query has no numbers, and a
\* partition never uses more than it holds
ValidPartition(p) ==
    /\ p.used <= p.total
    /\ p.usage # "ok" => p.total = 0

\* round((used / total) * 100, 1), in tenths of a percent
UsedPercent(used, total) ==
    LET n == used * 1000
        q == n \div total
        r == n % total IN
    IF 2 * r > total \/ (2 * r = total /\ q % 2 = 1) THEN q + 1 ELSE q

\* one turn of `for partition in partitions`, or the return after the last
GetStorageInfoStep ==
    LET sc == storage_call IN
    /\ sc.status = "running"
    /\ IF sc.i > Len(sc.parts)
       THEN storage_call' = [sc EXCEPT !.status = "returned"]
       ELSE LET p == sc.parts[sc.i] IN
            CASE p.usage = "PermissionError" ->
                    storage_call' = [sc EXCEPT !.i = @ + 1]
              [] p.usage = "OSError" ->
                    storage_call' = [sc EXCEPT !.status = "raised"]
              [] p.usage = "ok" /\ p.total = 0 ->
                    storage_call' = [sc EXCEPT !.status = "raised"]
              [] OTHER ->
                    storage_call' =
                        [sc EXCEPT
                           !.i = @ + 1,
                           !.data = Append(@,
                               [Device |-> p.device,
                                Mountpoint |-> p.mountpoint,
                                UsedPct |-> UsedPercent(p.used, p.total),
                                Type |-> IF DetectUsb(p.mountpoint, p.device, sc.system, sc.sysfs)
                                         THEN "USB" ELSE "Internal"])]
    /\ UNCHANGED << runVars, callVars, handlerVars, consoleVars, usb_call >>

\* ------------------------------------------------------------ specification
Texts == PackageNames

\* the steps of run_pip_command and of its process
RunNext ==
    \/ \E r \in Runs : RunExec(r)
    \/ \E r \in Runs : RunSep1(r)
    \/ \E r \in Runs : RunSpawn(r)
    \/ \E r \in Runs : RunSpawnFails(r)
    \/ \E r \in Runs, len \in LineLens : RunLine(r, len)
    \/ \E r \in Runs : RunReadFails(r)
    \/ \E r \in Runs : RunEOF(r)
    \/ \E r \in Runs, code \in ExitCodes : RunWait(r, code)
    \/ \E r \in Runs : RunSep2(r)
    \/ \E r \in Runs : RunResult(r)
    \/ \E r \in Runs : DeadlinePasses(r)

\* One request handler: its first call is any verb with any input, the calls
\* after it (up to VerbCalls calls in all) refresh or clear the console; the
\* worker thread the verb starts runs beside the handler.
Next ==
    \/ \E verb \in Verbs, text \in Texts, tmpok \in BOOLEAN :
          /\ ncalls < VerbCalls
          /\ ncalls > 0 => verb \in {"update_console", "clear_console"}
          /\ verb \notin NameVerbs \cup {"install_req"} => text = <<>>
          /\ verb # "install_req" => tmpok
          /\ Call(1, verb, text, <<>>, tmpok)
    \/ HPut(1)
    \/ HStart(1)
    \/ HListing(1)
    \/ UCGet(1)
    \/ UCLoad(1)
    \/ UCStore(1)
    \/ UCTrunc(1)
    \/ HReturn(1)
    \/ CCReset(1)
    \/ CCDrain(1)
    \/ \E ok \in BOOLEAN, n \in 0..MaxOutdated : HQuery(1, ok, n)
    \/ HBulkNext(1)
    \/ HInline(1)
    \/ RunNext

Spec == Init /\ [][Next]_vars

\* Several request handlers at once: the first call starts a command whose
\* process writes its lines and exits with 0; the other calls refresh the
\* console.
NextConsole ==
    \/ \E h \in Handlers : ncalls = 0 /\ Call(h, "freeze", <<>>, <<>>, TRUE)
    \/ \E h \in Handlers :
          ncalls > 0 /\ ncalls < ConsoleCalls /\ Call(h, "update_console", <<>>, <<>>, TRUE)
    \/ \E h \in Handlers : HPut(h)
    \/ \E h \in Handlers : HStart(h)
    \/ \E h \in Handlers : HListing(h)
    \/ \E h \in Handlers : UCGet(h)
    \/ \E h \in Handlers : UCLoad(h)
    \/ \E h \in Handlers : UCStore(h)
    \/ \E h \in Handlers : UCTrunc(h)
    \/ \E h \in Handlers : HReturn(h)
    \/ \E r \in Runs : RunExec(r)
    \/ \E r \in Runs : RunSep1(r)
    \/ \E r \in Runs : RunSpawn(r)
    \/ \E r \in Runs : RunLine(r, 1)
    \/ \E r \in Runs : RunEOF(r)
    \/ \E r \in Runs : RunWait(r, 0)
    \/ \E r \in Runs : RunSep2(r)
    \/ \E r \in Runs : RunResult(r)

SpecConsole == Init /\ [][NextConsole]_vars

\* One install_package call with any name and any version constraint; the
\* worker thread it starts runs beside the handler.
NextInstall ==
    \/ \E text \in Texts, version \in Versions :
          ncalls = 0 /\ Call(1, "install", text, version, TRUE)
    \/ HPut(1)
    \/ HStart(1)
    \/ HListing(1)
    \/ UCGet(1)
    \/ UCLoad(1)
    \/ UCStore(1)
    \/ UCTrunc(1)
    \/ HReturn(1)
    \/ RunNext

SpecInstall == Init /\ [][NextInstall]_vars

\* One upgrade_all_packages call: the query fails or reports up to
\* BulkOutdated entries; a process may fail to spawn, and one that is spawned
\* writes its lines and exits with 0 or 1.
NextBulk ==
    \/ ncalls = 0 /\ Call(1, "upgrade_all", <<>>, <<>>, TRUE)
    \/ HPut(1)
    \/ \E ok \in BOOLEAN, n \in 0..BulkOutdated : HQuery(1, ok, n)
    \/ HBulkNext(1)
    \/ HInline(1)
    \/ HListing(1)
    \/ UCGet(1)
    \/ UCLoad(1)
    \/ UCStore(1)
    \/ UCTrunc(1)
    \/ HReturn(1)
    \/ \E r \in Runs : RunExec(r)
    \/ \E r \in Runs : RunSep1(r)
    \/ \E r \in Runs : RunSpawn(r)
    \/ \E r \in Runs : RunSpawnFails(r)
    \/ \E r \in Runs : RunLine(r, 1)
    \/ \E r \in Runs : RunEOF(r)
    \/ \E r \in Runs, code \in {0, 1} : RunWait(r, code)
    \/ \E r \in Runs : RunSep2(r)
    \/ \E r \in Runs : RunResult(r)

SpecBulk == Init /\ [][NextBulk]_vars

\* Two request handlers at once: one starts a command whose process writes its
\* lines and exits with 0, and refreshes the console as the verb ends; the
\* other clears the console.
NextClear ==
    \/ ncalls = 0 /\ Call(1, "freeze", <<>>, <<>>, TRUE)
    \/ ncalls = 1 /\ Call(2, "clear_console", <<>>, <<>>, TRUE)
    \/ \E h \in Handlers : HPut(h)
    \/ \E h \in Handlers : HStart(h)
    \/ \E h \in Handlers : HListing(h)
    \/ \E h \in Handlers : UCGet(h)
    \/ \E h \in Handlers : UCLoad(h)
    \/ \E h \in Handlers : UCStore(h)
    \/ \E h \in Handlers : UCTrunc(h)
    \/ \E h \in Handlers : HReturn(h)
    \/ \E h \in Handlers : CCReset(h)
    \/ \E h \in Handlers : CCDrain(h)
    \/ \E r \in Runs : RunExec(r)
    \/ \E r \in Runs : RunSep1(r)
    \/ \E r \in Runs : RunSpawn(r)
    \/ \E r \in Runs : RunLine(r, 1)
    \/ \E r \in Runs : RunEOF(r)
    \/ \E r \in Runs : RunWait(r, 0)
    \/ \E r \in Runs : RunSep2(r)
    \/ \E r \in Runs : RunResult(r)

SpecClear == Init /\ [][NextClear]_vars

\* detect_usb_drive applied to one mount point and device, on any platform and
\* any /sys/block
InitUsb ==
    /\ PMInit
    /\ storage_call = NoStorageCall
    /\ usb_call \in [mountpoint : Mountpoints, device : Devices, system : Systems,
                      sysfs : Sysfss, done : {FALSE}, result : {FALSE}]

NextUsb == DetectUsbDrive

SpecUsb == InitUsb /\ [][NextUsb]_vars

\* get_storage_info over any list of up to MaxPartitions partitions
InitStorage ==
    /\ PMInit
    /\ usb_call = NoUsbCall
    /\ \E n \in 0..MaxPartitions :
          \E parts \in [1..n -> { p \in StoragePartitions : ValidPartition(p) }] :
              \E system \in Systems :
                  storage_call = [parts |-> parts, system |-> system,
                                  sysfs |-> {SysEntry(<<"s","d","b">>, <<"/","u","s","b","1","/","s","d","b">>, FALSE)},
                                  i |-> 1, data |-> <<>>, status |-> "running"]

NextStorage == GetStorageInfoStep

SpecStorage == InitStorage /\ [][NextStorage]_vars


\* ---------------------------------------------------------------- properties
AllWhitespace(name) == \A k \in 1..Len(name) : name[k] \in Whitespace

Kinds(log) == { log[k].kind : k \in 1..Len(log) }

CountKind(log, kind) == Cardinality({ k \in 1..Len(log) : log[k].kind = kind })

\* C1 (as stated): a name verb called with an empty or whitespace-only name
\* returns a rejection, starts no worker thread and spawns no process at all.
C1_BlankSpawnsNoProcess ==
    \A c \in Calls :
        cverb[c] \in NameVerbs /\ AllWhitespace(cname[c]) /\ cret[c] = "returned" =>
            /\ clog[c] = <<"reject">>
            /\ cthread[c] = 0
            /\ cprocs[c] = 0

\* C1 (amended): a name verb called with an empty or whitespace-only name puts
\* only its rejection chunk, never enters run_pip_command (no worker thread, no
\* inline run, no command process); the one process of the call is the
\* "pip list" query of get_installed_packages that builds the return value.
C1_BlankNeverRuns ==
    \A c \in Calls :
        cverb[c] \in NameVerbs /\ AllWhitespace(cname[c]) =>
            /\ cthread[c] = 0
            /\ cinline[c] = 0
            /\ \A r \in Runs : rcall[r] # c
            /\ clog[c] \in {<<>>, <<"reject">>}
            /\ cret[c] = "returned" => clog[c] = <<"reject">> /\ cprocs[c] = 1

C1_Witness ==
    \E c \in Calls :
        cverb[c] \in NameVerbs /\ cname[c] = <<"\t", " ">> /\ cret[c] = "returned"

\* C2: a run whose process was still running when the timeout duration elapsed
\* (and that met no exception) ends with exactly one "timed out" chunk and
\* never with a success chunk.
C2_TimedOutRunFails ==
    \A r \in Runs :
        overdue[r] /\ ~rexc[r] /\ rpc[r] = "done" =>
            CountKind(rlog[r], "timeout") = 1 /\ "ok" \notin Kinds(rlog[r])

\* C3 (as stated): when update_console finds the console over the maximum, the
\* text it leaves is at most the retention budget long and begins with the
\* truncation marker.
C3_TruncatedWithinBudget ==
    [][\A h \in Handlers :
          hpc[h] = "trunc" /\ hpc'[h] = "get" /\ Len(current_console) > MAX_CONSOLE =>
              /\ Len(current_console') <= KEEP_CONSOLE
              /\ SubSeq(current_console', 1, Len(TruncMarker)) = TruncMarker]_vars

\* C3 (amended): when update_console finds the console over the maximum, the
\* text it leaves begins with the truncation marker and is at most the
\* retention budget plus the marker's length long.
C3_TruncatedToMarkerAndTail ==
    [][\A h \in Handlers :
          hpc[h] = "trunc" /\ hpc'[h] = "get" /\ Len(current_console) > MAX_CONSOLE =>
              /\ Len(current_console') <= KEEP_CONSOLE + Len(TruncMarker)
              /\ SubSeq(current_console', 1, Len(TruncMarker)) = TruncMarker]_vars

C3_Witness ==
    /\ truncated
    /\ current_console[1].kind = "marker"
    /\ Len(current_console) = KEEP_CONSOLE + 1

\* C4: when the console is at or under the maximum after update_console has
\* appended a chunk, nothing is truncated: the append writes the text it read
\* followed by the chunk, and the length check leaves that text as it is.
C4_NoTruncationUnderMax ==
    [][\A h \in Handlers :
          /\ hpc[h] = "store" /\ hpc'[h] = "trunc" =>
                current_console' = loaded[h] \o message[h]
          /\ hpc[h] = "trunc" /\ hpc'[h] = "get" /\ Len(current_console) <= MAX_CONSOLE =>
                current_console' = current_console]_vars

C4_Witness ==
    \E h \in Handlers :
        /\ hpc[h] = "get"
        /\ ~truncated
        /\ Len(current_console) = MAX_CONSOLE

\* C5: a run whose process was spawned and exited reports success iff the
\* return code is zero; a non-zero code gives a failure chunk carrying the code
\* and no success chunk.
C5_SuccessIffZero ==
    \A r \in Runs :
        rpc[r] = "done" /\ proc[r] = "exited" =>
            /\ ("ok" \in Kinds(rlog[r])) <=> (returncode[r] = 0)
            /\ returncode[r] # 0 =>
                  rlog[r][Len(rlog[r])] = [kind |-> "fail", arg |-> returncode[r]]
            /\ CountKind(rlog[r], "ok") + CountKind(rlog[r], "fail") = 1

C5_Witness ==
    \E r \in Runs : rpc[r] = "done" /\ proc[r] = "exited" /\ returncode[r] = 2

\* C6: run_pip_command never raises: an exception inside it ends the run with
\* one error chunk as its last chunk, and with no success or failure chunk.
C6_NeverRaises ==
    \A r \in Runs :
        /\ rpc[r] # "raised"
        /\ rexc[r] =>
              /\ rpc[r] = "done"
              /\ rlog[r][Len(rlog[r])].kind = "error"
              /\ CountKind(rlog[r], "error") = 1
              /\ Kinds(rlog[r]) \cap {"ok", "fail"} = {}

C6_Witness ==
    \E r \in Runs : rexc[r] /\ proc[r] = "none" /\ rowner[r] = 0

\* C7: no verb has waited for a command's process to exit when it returns.
C7_VerbsReturnWithoutWaiting ==
    \A c \in Calls : cret[c] = "returned" => cinline[c] = 0

\* C10: uninstall of a protected name has put its three warning chunks before
\* the command runner puts the execution chunk, and the command is started; for
\* a name that is not protected the verb puts no warning.
C10_WarningBeforeUninstall ==
    \A c \in Calls :
        cverb[c] = "uninstall" =>
            /\ cname[c] \in {<<"p", "i", "p">>, <<" ", "P", "i", "P", "\t">>} =>
                  /\ \A r \in Runs : rcall[r] = c => clog[c] = <<"warn", "warn", "warn">>
                  /\ cret[c] = "returned" => cthread[c] = 1
            /\ cname[c] = <<"n", "p">> =>
                  /\ clog[c] = <<>>
                  /\ cret[c] = "returned" => cthread[c] = 1

C10_Witness ==
    \E c \in Calls, r \in Runs :
        /\ cverb[c] = "uninstall"
        /\ cname[c] = <<" ", "P", "i", "P", "\t">>
        /\ rcall[r] = c
        /\ rlog[r] # <<>>
        /\ rlog[r][1].kind = "exec"

\* C8: the chunks of one command stand in the console text in the order the
\* command put them.
C8_CommandOrderKept ==
    \A p, q \in 1..Len(current_console) :
        /\ p < q
        /\ current_console[p].src = current_console[q].src
        /\ current_console[p].src[1] = "run"
        => \/ current_console[p].n < current_console[q].n
           \/ /\ current_console[p].n = current_console[q].n
              /\ current_console[p].i < current_console[q].i

Occurrences(text, id) ==
    Cardinality({ k \in 1..Len(text) : text[k].src = id.src /\ text[k].n = id.n /\ text[k].i = 1 })

\* C9: without clear and truncation, the text an update_console returns holds
\* exactly once every chunk that a run had put before that update_console
\* began.
C9_NoChunkLostOrDuplicated ==
    \A h \in Handlers :
        hpc[h] = "ret" /\ ~truncated /\ ~cleared =>
            \A id \in owed[h] : id.src[1] = "run" => Occurrences(hret[h], id) = 1

\* a comparison sign: ">" or "<" anywhere, or "=" right after "=", "~" or "!"
HasComparison(v) ==
    \E k \in 1..Len(v) :
        \/ v[k] \in {">", "<"}
        \/ k < Len(v) /\ v[k] \in {"=", "~", "!"} /\ v[k + 1] = "="

\* C11: the package spec install_package hands to the command runner, for a
\* non-blank name: the trimmed name alone when the version box is blank; the
\* trimmed name followed by the trimmed constraint when the constraint holds
\* a comparison operator; the trimmed name, "==" and the trimmed constraint
\* otherwise.
C11_SpecFromConstraint ==
    \A r \in Runs :
        rpc[r] # "unborn" /\ rcmd[r].verb = "install" =>
            LET name == Strip(cname[rcall[r]])
                constraint == Strip(cversion[rcall[r]]) IN
            /\ name # <<>>
            /\ constraint = <<>> => rcmd[r].arg = name
            /\ constraint # <<>> /\ HasComparison(constraint) =>
                  rcmd[r].arg = name \o constraint
            /\ constraint # <<>> /\ ~HasComparison(constraint) =>
                  rcmd[r].arg = name \o <<"=", "=">> \o constraint

C11_Witness ==
    \E r \in Runs :
        /\ rcmd[r].arg = <<"P","i","P","~","=","1">>
        /\ cname[rcall[r]] = <<" ","P","i","P","\t">>
        /\ cversion[rcall[r]] = <<" ","~","=","1">>
        /\ rpc[r] = "done"

\* the runs a call has started
RunsOf(c) == { r \in Runs : rcall[r] = c }

\* the outdated entries a bulk upgrade has listed (at most ten are listed)
Listed(c) == Cardinality({ k \in 1..Len(clog[c]) : clog[c][k] = "preview" })

\* C12: bulk upgrade runs the upgrade command once per outdated entry, in
\* listing order (its k-th run is for the k-th entry), inside the handler and
\* one at a time (a run is started only when every earlier run of the call is
\* finished); when the verb returns, every entry has had its run, whatever the
\* outcome of the runs before it, and no entry has had a second one.
C12_OneRunPerEntryInOrder ==
    \A c \in Calls :
        cverb[c] = "upgrade_all" =>
            /\ \A r \in RunsOf(c) :
                  /\ rcmd[r] = [verb |-> "update",
                                arg |-> <<"o", Cardinality({ q \in RunsOf(c) : q <= r })>>]
                  /\ rowner[r] # 0
            /\ \A r1, r2 \in RunsOf(c) : r1 < r2 => rpc[r1] = "done"
            /\ Cardinality(RunsOf(c)) <= Listed(c)
            /\ cret[c] = "returned" => Cardinality(RunsOf(c)) = Listed(c)

C12_Witness ==
    \E c \in Calls, r1, r2 \in Runs :
        /\ cverb[c] = "upgrade_all"
        /\ cret[c] = "returned"
        /\ rcall[r1] = c /\ rcall[r2] = c /\ r1 < r2
        /\ rexc[r1] \/ returncode[r1] # 0
        /\ rpc[r2] = "done"

\* C13: while a clear_console is under way, no text that update_console or
\* clear_console returns holds a chunk that was on the queue when that
\* clear_console reset the console.
C13_ClearDropsQueued ==
    \A h, g \in Handlers :
        hpc[g] = "ret" => \A id \in condemned[h] : Occurrences(hret[g], id) = 0

\* a conventional removable-media prefix
RemovablePrefix(m) ==
    \/ Len(m) >= 7 /\ SubSeq(m, 1, 7) = <<"/","m","e","d","i","a","/">>
    \/ Len(m) >= 5 /\ SubSeq(m, 1, 5) = <<"/","m","n","t","/">>
    \/ Len(m) >= 11 /\ SubSeq(m, 1, 11) = <<"/","r","u","n","/","m","e","d","i","a","/">>

\* the path mentions usb, in either case
MentionsUsb(path) ==
    \E k \in 1..(Len(path) - 2) :
        path[k] \in {"u", "U"} /\ path[k + 1] \in {"s", "S"} /\ path[k + 2] \in {"b", "B"}

\* C14: a mount point that starts with /media/, /mnt/ or /run/media/ is USB
\* on every platform and whatever /sys/block holds; a mount point with no such
\* prefix is USB only on Linux, and only when the /sys/block entry of the
\* device resolves to a path that mentions usb.
C14_UsbByPrefixOrSysfs ==
    usb_call.done =>
        /\ RemovablePrefix(usb_call.mountpoint) => usb_call.result
        /\ ~RemovablePrefix(usb_call.mountpoint) /\ usb_call.result =>
              /\ usb_call.system = "Linux"
              /\ \E e \in usb_call.sysfs :
                    /\ e.name = RStripDigits(LastComponent(usb_call.device))
                    /\ ~e.raises
                    /\ MentionsUsb(e.real)

C14_Witness ==
    /\ usb_call.done
    /\ usb_call.result
    /\ usb_call.mountpoint = <<"/","r","u","n","/","m","e","d","i","a","/","u">>
    /\ usb_call.system = "Windows"
    /\ usb_call.sysfs = {SysEntry(<<"s","d","b">>, <<"/","a","t","a","/","s","d","b">>, FALSE)}

\* C16: get_storage_info never raises, and what it returns holds one record
\* for each partition whose usage query succeeded.
C16_StorageNeverFails ==
    /\ storage_call.status # "raised"
    /\ storage_call.status = "returned" =>
          Len(storage_call.data) =
              Cardinality({ k \in 1..Len(storage_call.parts) :
                               storage_call.parts[k].usage = "ok" })

\* the chunks that end a run: success, failure with the return code, error
TerminalKinds == {"ok", "fail", "error"}

\* the positions of run_pip_command before its end
RunningAt == {"exec", "sep1", "spawn", "read", "wait", "sep2", "result"}

\* C15: a run never has more than one terminal chunk (success, failure with
\* return code, or error), a terminal chunk is the last chunk the run has put
\* (no output chunk follows it), and a run that has ended has put its terminal
\* chunk; a run still inside run_pip_command has put none.
C15_OneTerminalChunkLast ==
    \A r \in Runs :
        LET terminal == { k \in 1..Len(rlog[r]) : rlog[r][k].kind \in TerminalKinds } IN
        /\ Cardinality(terminal) <= 1
        /\ terminal \subseteq {Len(rlog[r])}
        /\ rpc[r] \notin RunningAt \cup {"unborn"} => Cardinality(terminal) = 1
        /\ rpc[r] \in RunningAt \cup {"unborn"} => terminal = {}

C15_Witness ==
    \E r \in Runs :
        /\ rpc[r] = "done"
        /\ CountKind(rlog[r], "line") = MaxLines
        /\ rlog[r][Len(rlog[r])].kind = "error"
        /\ rowner[r] = 0

\* C17: the console text that update_console or clear_console returns is at
\* most the maximum long.
C17_ReturnedWithinMax ==
    \A h \in Handlers : hpc[h] = "ret" => Len(hret[h]) <= MAX_CONSOLE

====
